---- MODULE Spec2Model ----
(***************************************************************************)
(* Model of the R.A.C.E 2025 main process (src/main.js, second revision,   *)
(* lines 322-659, and the bootstrap variant of src/unnamed/part_000):      *)
(* the application-data bootstrap, the two JSON record documents, the      *)
(* uploads directory and the ipcMain request handlers that act on them.    *)
(*                                                                         *)
(* A file's text is a sequence of tokens; a path is a sequence of          *)
(* segments (path.join appends a segment, path.basename takes the last).   *)
(* The filesystem under userData is a set of directories and a set of      *)
(* [path, data] entries.  Files picked in native dialogs and the bundled   *)
(* seed files are inputs of the step that reads them.  A handler that      *)
(* awaits a native dialog is two steps, before and after the await.        *)
(* Modification times (statSync(...).mtime) are left out of the entries.   *)
(*                                                                         *)
(* Two specifications share the bootstrap.  Spec is the store: the         *)
(* bootstrap and the request handlers on the files, with the windows left  *)
(* out (phase says whether a renderer exists).  SpecWindows is the window  *)
(* lifecycle of main.js: the four window references, the create*Window     *)
(* functions, the window ipc listeners and the "closed" events, with the   *)
(* file handlers left out.  The two meet only in createLoginWindow: the    *)
(* file handlers read the references just to parent a dialog.              *)
(***************************************************************************)
EXTENDS Naturals, Sequences, FiniteSets, TLC

VARIABLES
    build,      \* which bootstrap the running build has: "main.js" or "part_000"
    phase,      \* "start" before app ready, then "running" or "aborted"
    ioFail,     \* environment: writes under userData currently fail (EACCES, ENOSPC)
    dirs,       \* directories that exist under userData
    files,      \* files that exist under userData: set of [path, data]
    pending,    \* requests whose handler is awaiting its native dialog
    last,       \* the request handled by the last step and what its caller got
    scen,       \* progress of the upload / rename / delete scenario
    wins,       \* BrowserWindow objects not yet destroyed: set of [role, n, closing]
    refs,       \* loginWindow, homeWindow, raceWindow, adminWindow
    quit        \* app.quit() has been called

winVars == <<wins, refs, quit>>

vars == <<build, phase, ioFail, dirs, files, pending, last, scen, wins, refs, quit>>

\* At most this many handlers await a dialog at the same time.
MaxPending == 1

-----------------------------------------------------------------------------
\* Texts

Placeholder == <<"[", "]">>
SeedProd == <<"[", "1", "]">>
SeedDev == <<"[", "2", "]">>
ObjA == <<"{", "\"a\"", ":", "1", "}">>
BadObj == <<"{", "a", ":", "1", "}">>
Truncated == <<"[", "1">>
DocX == <<"%PDF-x">>
DocY == <<"%PDF-y">>
NoText == <<>>

ImportTexts == {Placeholder, ObjA, BadObj, Truncated}
ExportTexts == {Placeholder, ObjA}
DocTexts == {DocX, DocY}

StrToks == {"\"a\""}
NumToks == {"1", "2"}

RECURSIVE ParseValue(_, _), ParseElements(_, _), ParseMembers(_, _)

\* Index after the JSON value that starts at t[i], or 0 when there is none.
ParseValue(t, i) ==
    IF i > Len(t) THEN 0
    ELSE IF t[i] \in NumToks \/ t[i] \in StrToks THEN i + 1
    ELSE IF t[i] = "[" THEN
        IF i + 1 <= Len(t) /\ t[i + 1] = "]" THEN i + 2 ELSE ParseElements(t, i + 1)
    ELSE IF t[i] = "{" THEN
        IF i + 1 <= Len(t) /\ t[i + 1] = "}" THEN i + 2 ELSE ParseMembers(t, i + 1)
    ELSE 0

\* Index after the "]" that closes the elements starting at t[i], or 0.
ParseElements(t, i) ==
    LET j == ParseValue(t, i)
    IN  IF j = 0 \/ j > Len(t) THEN 0
        ELSE IF t[j] = "," THEN ParseElements(t, j + 1)
        ELSE IF t[j] = "]" THEN j + 1
        ELSE 0

\* Index after the "}" that closes the members starting at t[i], or 0.
ParseMembers(t, i) ==
    IF i + 1 > Len(t) \/ t[i] \notin StrToks \/ t[i + 1] # ":" THEN 0
    ELSE LET j == ParseValue(t, i + 2)
         IN  IF j = 0 \/ j > Len(t) THEN 0
             ELSE IF t[j] = "," THEN ParseMembers(t, j + 1)
             ELSE IF t[j] = "}" THEN j + 1
             ELSE 0

\* Mutant: no validation, every text is accepted.
JSONParseAnything(t) == TRUE

\* JSON.parse(content) returns instead of throwing a SyntaxError.
JSONParseOk(t) == ParseValue(t, 1) = Len(t) + 1

-----------------------------------------------------------------------------
\* Paths

join(dir, name) == Append(dir, name)
basename(p) == p[Len(p)]
dirname(p) == SubSeq(p, 1, Len(p) - 1)

appDataPath == <<"userData">>
dbPath == join(appDataPath, "database.json")
reqPath == join(appDataPath, "requirements.json")
docsDir == join(appDataPath, "uploads")

RecordPaths == {dbPath, reqPath}
FileNames == {"database.json", "requirements.json", "other.json"}
Names == {"invoice.pdf", "invoice_2024.pdf"}
SrcDirs == {"Desktop", "Downloads"}

\* Mutant: every kind resolves to database.json.
RecordPathAlwaysDb(fileName) == dbPath

\* fileName === "database.json" ? dbPath : reqPath
RecordPathOf(fileName) == IF fileName = "database.json" THEN dbPath ELSE reqPath

-----------------------------------------------------------------------------
\* fs primitives over (dirs, files)

existsSync(D, F, p) == p \in D \/ \E e \in F : e.path = p
IsFile(F, p) == \E e \in F : e.path = p
DataAt(F, p) == (CHOOSE e \in F : e.path = p).data
Put(F, p, d) == {e \in F : e.path # p} \cup {[path |-> p, data |-> d]}
Unlink(F, p) == {e \in F : e.path # p}
Move(F, old, new) == Put(Unlink(F, old), new, DataAt(F, old))
\* A write to p succeeds when its directory exists and the environment lets it.
CanWrite(D, fail, p) == dirname(p) \in D /\ ~fail

\* readdirSync(docsDir).map(...): one {name} per file of the directory.
DirEntries(F) == {e \in F : dirname(e.path) = docsDir}
EntriesNamed(F, n) == {e \in DirEntries(F) : basename(e.path) = n}
DirNames(F) == {basename(e.path) : e \in DirEntries(F)}

-----------------------------------------------------------------------------
\* What a step reports: the request, and what its caller (or the log) got.

\* A file outside userData that a native dialog answered with: its path, its
\* text (after the step: what it then holds) and whether it could be opened.
ExtFile(path, data, ok) == [path |-> path, data |-> data, ok |-> ok]
NoFile == ExtFile(<<>>, NoText, FALSE)

NoResult ==
    [op |-> "", a1 |-> "", a2 |-> "", outcome |-> "", ret |-> "", err |-> "",
     text |-> NoText, file |-> NoFile, list |-> {}]

NoScen == [step |-> 0, a |-> "", b |-> ""]

\* upload(A) into an empty directory, then rename(A, B), then delete(B), then
\* list-files, each the very next request; anything else starts over.
ScenAfter(s, l, F) ==
    IF l.op = "upload-document" /\ l.ret = "entry" /\ DirEntries(F) = {}
        THEN [step |-> 1, a |-> l.a1, b |-> ""]
    ELSE IF s.step = 1 /\ l.op = "rename-file" /\ l.ret = "true" /\ l.a1 = s.a
        THEN [step |-> 2, a |-> s.a, b |-> l.a2]
    ELSE IF s.step = 2 /\ l.op = "delete-file" /\ l.outcome = "returned" /\ l.a1 = s.b
        THEN [s EXCEPT !.step = 3]
    ELSE IF s.step = 3 /\ l.op = "list-files"
        THEN [s EXCEPT !.step = 4]
    ELSE NoScen

\* Every step records its result and advances the scenario monitor.
Report(l) ==
    /\ last' = l
    /\ scen' = ScenAfter(scen, l, files)

-----------------------------------------------------------------------------
\* Bootstrap

candidates == <<"app.asar.unpacked", "__dirname">>
CandidateSet == {candidates[i] : i \in 1..Len(candidates)}

\* candidates.find(p => fs.existsSync(p)): the first one that exists.
FirstFound(avail) ==
    IF \E i \in 1..Len(candidates) : candidates[i] \in avail
    THEN candidates[CHOOSE i \in 1..Len(candidates) :
                        /\ candidates[i] \in avail
                        /\ \A j \in 1..(i - 1) : candidates[j] \notin avail]
    ELSE "none"

SeedData(source) == IF source = "app.asar.unpacked" THEN SeedProd ELSE SeedDev

\* Mutant: the placeholder is not written when no seed is found.
copyToAppDataNoPlaceholder(D, F, fail, avail, dest) ==
    IF existsSync(D, F, dest) THEN [files |-> F, log |-> "exists", threw |-> FALSE]
    ELSE LET source == FirstFound(avail)
         IN  IF ~CanWrite(D, fail, dest)
                 THEN [files |-> F, log |-> "error", threw |-> FALSE]
             ELSE IF source # "none"
                 THEN [files |-> Put(F, dest, SeedData(source)), log |-> source,
                       threw |-> FALSE]
             ELSE [files |-> F, log |-> "missing", threw |-> FALSE]

\* Mutant: dest is seeded again although it exists.
copyToAppDataOverwrite(D, F, fail, avail, dest) ==
    LET source == FirstFound(avail)
    IN  IF ~CanWrite(D, fail, dest)
            THEN [files |-> F, log |-> "error", threw |-> FALSE]
        ELSE IF source # "none"
            THEN [files |-> Put(F, dest, SeedData(source)), log |-> source,
                  threw |-> FALSE]
        ELSE [files |-> Put(F, dest, Placeholder), log |-> "missing",
              threw |-> FALSE]

\* main.js: skips an existing dest; a failed copy or write is caught and logged.
copyToAppData(D, F, fail, avail, dest) ==
    IF existsSync(D, F, dest) THEN [files |-> F, log |-> "exists", threw |-> FALSE]
    ELSE LET source == FirstFound(avail)
         IN  IF ~CanWrite(D, fail, dest)
                 THEN [files |-> F, log |-> "error", threw |-> FALSE]
             ELSE IF source # "none"
                 THEN [files |-> Put(F, dest, SeedData(source)), log |-> source,
                       threw |-> FALSE]
             ELSE [files |-> Put(F, dest, Placeholder), log |-> "missing",
                   threw |-> FALSE]

\* part_000: the caller tests existence; a failed copy or write throws.
copyToAppDataPart(D, F, fail, avail, dest) ==
    LET source == FirstFound(avail)
    IN  IF ~CanWrite(D, fail, dest)
            THEN [files |-> F, log |-> "error", threw |-> TRUE]
        ELSE IF source # "none"
            THEN [files |-> Put(F, dest, SeedData(source)), log |-> source,
                  threw |-> FALSE]
        ELSE [files |-> Put(F, dest, Placeholder), log |-> "missing",
              threw |-> FALSE]

\* mkdirSync(p, {recursive: true}) behind an existsSync test.
EnsureDir(D, fail, p) ==
    IF p \in D THEN [dirs |-> D, threw |-> FALSE]
    ELSE IF fail THEN [dirs |-> D, threw |-> TRUE]
    ELSE [dirs |-> D \cup {SubSeq(p, 1, n) : n \in 1..Len(p)}, threw |-> FALSE]

Thrown(D, F, l1, l2) ==
    [threw |-> TRUE, dirs |-> D, files |-> F, log1 |-> l1, log2 |-> l2]

initializeAppData(D, F, fail, availDb, availReq) ==
    LET m1 == EnsureDir(D, fail, appDataPath)
        m2 == EnsureDir(m1.dirs, fail, docsDir)
        c1 == copyToAppData(m2.dirs, F, fail, availDb, dbPath)
        c2 == copyToAppData(m2.dirs, c1.files, fail, availReq, reqPath)
    IN  IF m1.threw THEN Thrown(D, F, "", "")
        ELSE IF m2.threw THEN Thrown(m1.dirs, F, "", "")
        ELSE [threw |-> FALSE, dirs |-> m2.dirs, files |-> c2.files,
              log1 |-> c1.log, log2 |-> c2.log]

initializeAppDataPart(D, F, fail, availDb, availReq) ==
    LET m1 == EnsureDir(D, fail, appDataPath)
        m2 == EnsureDir(m1.dirs, fail, docsDir)
        c1 == IF existsSync(m2.dirs, F, dbPath)
              THEN [files |-> F, log |-> "exists", threw |-> FALSE]
              ELSE copyToAppDataPart(m2.dirs, F, fail, availDb, dbPath)
        c2 == IF existsSync(m2.dirs, c1.files, reqPath)
              THEN [files |-> c1.files, log |-> "exists", threw |-> FALSE]
              ELSE copyToAppDataPart(m2.dirs, c1.files, fail, availReq, reqPath)
    IN  IF m1.threw THEN Thrown(D, F, "", "")
        ELSE IF m2.threw THEN Thrown(m1.dirs, F, "", "")
        ELSE IF c1.threw THEN Thrown(m2.dirs, c1.files, c1.log, "")
        ELSE IF c2.threw THEN Thrown(m2.dirs, c2.files, c1.log, c2.log)
        ELSE [threw |-> FALSE, dirs |-> m2.dirs, files |-> c2.files,
              log1 |-> c1.log, log2 |-> c2.log]

\* Which candidates exist is an input of the call; neither bootstrap looks for
\* them when dest exists before the call.
BundleChoices(dest) ==
    IF IsFile(files, dest) THEN {{}} ELSE SUBSET CandidateSet

\* createLoginWindow: initializeAppData(), then the login window is created.
createLoginWindow ==
    \E availDb \in BundleChoices(dbPath), availReq \in BundleChoices(reqPath) :
        LET r == IF build = "main.js"
                 THEN initializeAppData(dirs, files, ioFail, availDb, availReq)
                 ELSE initializeAppDataPart(dirs, files, ioFail, availDb, availReq)
        IN  /\ dirs' = r.dirs
            /\ files' = r.files
            /\ phase' = IF ~r.threw THEN "running"
                        ELSE IF phase = "start" THEN "aborted" ELSE phase
            /\ Report([NoResult EXCEPT !.op = "initializeAppData",
                          !.outcome = IF r.threw THEN "raised" ELSE "returned",
                          !.err = IF r.threw THEN "IO" ELSE "",
                          !.a1 = r.log1, !.a2 = r.log2])
            /\ UNCHANGED <<build, ioFail, pending>>

\* app.whenReady().then(createLoginWindow)
AppReady == phase = "start" /\ createLoginWindow /\ UNCHANGED winVars

\* app.on("activate"): createLoginWindow again when no window is open.
Activate == phase # "start" /\ createLoginWindow /\ UNCHANGED winVars

-----------------------------------------------------------------------------
\* Request handlers (ipcMain.handle / ipcMain.on).  A renderer exists, and so a
\* request can arrive, only after createLoginWindow has returned once.

\* The handlers are those of main.js; part_000 ends before its own.
Serving == phase = "running" /\ build = "main.js"

Returned(op, a1, a2, ret) ==
    [NoResult EXCEPT !.op = op, !.a1 = a1, !.a2 = a2, !.outcome = "returned",
                     !.ret = ret]

Raised(op, a1, a2, err) ==
    [NoResult EXCEPT !.op = op, !.a1 = a1, !.a2 = a2, !.outcome = "raised",
                     !.err = err]

Awaiting(op, a1) ==
    [NoResult EXCEPT !.op = op, !.a1 = a1, !.outcome = "awaiting"]

Request(op, a1, text) == [op |-> op, a1 |-> a1, text |-> text]

\* Mutant: a failed read hands back the empty text.
GetDataTextNoFallback(F, fileName) ==
    LET file == RecordPathOf(fileName)
    IN  IF IsFile(F, file) THEN DataAt(F, file) ELSE NoText

\* The text get-data hands back: the file's, or "[]" when the read throws.
GetDataText(F, fileName) ==
    LET file == RecordPathOf(fileName)
    IN  IF IsFile(F, file) THEN DataAt(F, file) ELSE Placeholder

GetData(fileName) ==
    /\ Serving
    /\ Report([Returned("get-data", fileName, "", "text")
                  EXCEPT !.text = GetDataText(files, fileName)])
    /\ UNCHANGED <<wins, refs, quit, build, phase, ioFail, dirs, files, pending>>

\* Mutant: the uploads directory is made before the dialog is shown.
UploadDocumentStartMkdir ==
    /\ Serving
    /\ Cardinality(pending) < MaxPending
    /\ Request("upload-document", "", NoText) \notin pending
    /\ pending' = pending \cup {Request("upload-document", "", NoText)}
    /\ dirs' = IF ioFail THEN dirs ELSE dirs \cup {appDataPath, docsDir}
    /\ Report(Awaiting("upload-document", ""))
    /\ UNCHANGED <<wins, refs, quit, build, phase, ioFail, files>>

\* upload-document up to its await of dialog.showOpenDialog.
UploadDocumentStart ==
    /\ Serving
    /\ Cardinality(pending) < MaxPending
    /\ Request("upload-document", "", NoText) \notin pending
    /\ pending' = pending \cup {Request("upload-document", "", NoText)}
    /\ Report(Awaiting("upload-document", ""))
    /\ UNCHANGED <<wins, refs, quit, build, phase, ioFail, dirs, files>>

\* Mutant: the first segment of the path instead of the last.
UploadNameFirst(src) == src[1]

\* The name upload-document stores the picked file under.
UploadName(src) == basename(src)

\* upload-document from the dialog's answer to its return.
UploadDocument(canceled, src, data, readable) ==
    LET dest == join(docsDir, UploadName(src))
        picked == ExtFile(src, data, readable)
    IN  /\ Request("upload-document", "", NoText) \in pending
        /\ pending' = pending \ {Request("upload-document", "", NoText)}
        /\ IF canceled
           THEN /\ Report(Returned("upload-document", "", "", "null"))
                /\ UNCHANGED files
           ELSE IF readable /\ CanWrite(dirs, ioFail, dest)
           THEN /\ files' = Put(files, dest, data)
                /\ Report([Returned("upload-document", UploadName(src), "", "entry")
                              EXCEPT !.file = picked])
           ELSE /\ Report([Raised("upload-document", "", "", "IO")
                              EXCEPT !.file = picked])
                /\ UNCHANGED files
        /\ UNCHANGED <<wins, refs, quit, build, phase, ioFail, dirs>>

UploadDocumentResume ==
    \E canceled \in BOOLEAN, dir \in SrcDirs, name \in Names, data \in DocTexts,
       readable \in BOOLEAN :
        UploadDocument(canceled, <<dir, name>>, data, readable)

\* What list-files returns.
ListFilesResult(D, F) == IF ~existsSync(D, F, docsDir) THEN {} ELSE DirNames(F)

ListFiles ==
    /\ Serving
    /\ Report([Returned("list-files", "", "", "list")
                  EXCEPT !.list = ListFilesResult(dirs, files)])
    /\ UNCHANGED <<wins, refs, quit, build, phase, ioFail, dirs, files, pending>>

\* Mutant: an existing newName is not replaced.
RenameFileNoOverwrite(oldName, newName) ==
    LET oldP == join(docsDir, oldName)
        newP == join(docsDir, newName)
    IN  /\ Serving
        /\ IF ~existsSync(dirs, files, oldP) \/ existsSync(dirs, files, newP)
           THEN /\ Report(Returned("rename-file", oldName, newName, "false"))
                /\ UNCHANGED files
           ELSE IF ioFail /\ oldP # newP
           THEN /\ Report(Raised("rename-file", oldName, newName, "IO"))
                /\ UNCHANGED files
           ELSE /\ files' = Move(files, oldP, newP)
                /\ Report(Returned("rename-file", oldName, newName, "true"))
        /\ UNCHANGED <<wins, refs, quit, build, phase, ioFail, dirs, pending>>

\* renameSync of a path onto itself does nothing and succeeds.
RenameFile(oldName, newName) ==
    LET oldP == join(docsDir, oldName)
        newP == join(docsDir, newName)
    IN  /\ Serving
        /\ IF ~existsSync(dirs, files, oldP)
           THEN /\ Report(Returned("rename-file", oldName, newName, "false"))
                /\ UNCHANGED files
           ELSE IF ioFail /\ oldP # newP
           THEN /\ Report(Raised("rename-file", oldName, newName, "IO"))
                /\ UNCHANGED files
           ELSE /\ files' = Move(files, oldP, newP)
                /\ Report(Returned("rename-file", oldName, newName, "true"))
        /\ UNCHANGED <<wins, refs, quit, build, phase, ioFail, dirs, pending>>

\* What delete-file returns when nothing is thrown.
DeleteFileResult(existed) == "true"

DeleteFile(name) ==
    LET p == join(docsDir, name)
        existed == existsSync(dirs, files, p)
    IN  /\ Serving
        /\ IF existed /\ ioFail
           THEN /\ Report(Raised("delete-file", name, "", "IO"))
                /\ UNCHANGED files
           ELSE /\ files' = IF existed THEN Unlink(files, p) ELSE files
                /\ Report(Returned("delete-file", name, "", DeleteFileResult(existed)))
        /\ UNCHANGED <<wins, refs, quit, build, phase, ioFail, dirs, pending>>

\* open-file: shell.openPath(p) when p exists; nothing is sent back.
OpenFile(name) ==
    LET p == join(docsDir, name)
    IN  /\ Serving
        /\ Report(Returned("open-file", name,
                           IF existsSync(dirs, files, p) THEN "openPath" ELSE "",
                           "undefined"))
        /\ UNCHANGED <<wins, refs, quit, build, phase, ioFail, dirs, files, pending>>

\* export-data up to its await of dialog.showSaveDialog.
ExportDataStart(fileName, content) ==
    /\ Serving
    /\ Cardinality(pending) < MaxPending
    /\ Request("export-data", fileName, content) \notin pending
    /\ pending' = pending \cup {Request("export-data", fileName, content)}
    /\ Report(Awaiting("export-data", fileName))
    /\ UNCHANGED <<wins, refs, quit, build, phase, ioFail, dirs, files>>

\* What export-data returns when nothing is thrown.
ExportDataResult(chosen) == "true"

\* export-data from the dialog's answer to its return.  filePath is outside
\* userData (the default is the downloads directory); <<>> stands for no choice.
ExportData(req, filePath, writable) ==
    /\ req \in pending /\ req.op = "export-data"
    /\ pending' = pending \ {req}
    /\ IF filePath = <<>>
       THEN Report([Returned("export-data", req.a1, "", ExportDataResult(FALSE))
                       EXCEPT !.text = req.text])
       ELSE IF ~writable
       THEN Report([Raised("export-data", req.a1, "", "IO")
                       EXCEPT !.text = req.text,
                              !.file = ExtFile(filePath, NoText, FALSE)])
       ELSE Report([Returned("export-data", req.a1, "", ExportDataResult(TRUE))
                       EXCEPT !.text = req.text,
                              !.file = ExtFile(filePath, req.text, TRUE)])
    /\ UNCHANGED <<wins, refs, quit, build, phase, ioFail, dirs, files>>

ExportDataResume ==
    \E req \in pending, chosen \in BOOLEAN, writable \in BOOLEAN :
        ExportData(req, IF chosen THEN <<"Downloads", req.a1>> ELSE <<>>, writable)

\* import-data up to its await of dialog.showOpenDialog.
ImportDataStart(fileName) ==
    /\ Serving
    /\ Cardinality(pending) < MaxPending
    /\ Request("import-data", fileName, NoText) \notin pending
    /\ pending' = pending \cup {Request("import-data", fileName, NoText)}
    /\ Report(Awaiting("import-data", fileName))
    /\ UNCHANGED <<wins, refs, quit, build, phase, ioFail, dirs, files>>

\* import-data from the dialog's answer to its return.
ImportData(req, canceled, src, content, readable) ==
    LET dest == RecordPathOf(req.a1)
        picked == ExtFile(src, content, readable)
    IN  /\ req \in pending /\ req.op = "import-data"
        /\ pending' = pending \ {req}
        /\ IF canceled
           THEN /\ Report(Returned("import-data", req.a1, "", "null"))
                /\ UNCHANGED files
           ELSE IF ~readable
           THEN /\ Report([Raised("import-data", req.a1, "", "IO")
                              EXCEPT !.file = picked])
                /\ UNCHANGED files
           ELSE IF ~JSONParseOk(content)
           THEN /\ Report([Raised("import-data", req.a1, "read", "Invalid JSON structure")
                              EXCEPT !.file = picked])
                /\ UNCHANGED files
           ELSE IF ~CanWrite(dirs, ioFail, dest)
           THEN /\ Report([Raised("import-data", req.a1, "read", "IO")
                              EXCEPT !.file = picked])
                /\ UNCHANGED files
           ELSE /\ files' = Put(files, dest, content)
                /\ Report([Returned("import-data", req.a1, "read", "text")
                              EXCEPT !.file = picked, !.text = content])
        /\ UNCHANGED <<wins, refs, quit, build, phase, ioFail, dirs>>

ImportDataResume ==
    \E req \in pending, canceled \in BOOLEAN, content \in ImportTexts,
       readable \in BOOLEAN :
        ImportData(req, canceled, <<"Desktop", "data.json">>, content, readable)

-----------------------------------------------------------------------------
\* Environment

\* Writes under userData start or stop failing (permissions, a full disk).
SetIoFail ==
    /\ ioFail' = ~ioFail
    /\ Report([NoResult EXCEPT !.op = "environment"])
    /\ UNCHANGED <<wins, refs, quit, build, phase, dirs, files, pending>>

\* The user removes the uploads directory from outside the application.
RemoveUploadsDir ==
    /\ phase # "start"
    /\ docsDir \in dirs
    /\ dirs' = dirs \ {docsDir}
    /\ files' = files \ DirEntries(files)
    /\ Report([NoResult EXCEPT !.op = "environment"])
    /\ UNCHANGED <<wins, refs, quit, build, phase, ioFail, pending>>

-----------------------------------------------------------------------------
\* Windows (main.js 332-335, 402-552)

Roles == {"login", "home", "race", "admin"}

\* At most this many windows of one role are created while others of it live.
MaxWindows == 2

\* The value of a reference that holds no window: undefined before the first
\* assignment, null after a "closed" handler.  The code tests only truthiness.
NoWindow == [role |-> "", n |-> 0]

Id(w) == [role |-> w.role, n |-> w.n]

OfRole(W, role) == {w \in W : w.role = role}

\* win.isDestroyed(): the object is destroyed once its "closed" was emitted.
isDestroyed(W, id) == \A w \in W : Id(w) # id

\* new BrowserWindow(...) of a role: an object distinct from the live ones.
NewWindow(W, role) ==
    LET used == {w.n : w \in OfRole(W, role)}
        n == CHOOSE k \in 1..(Cardinality(used) + 1) :
                 k \notin used /\ \A j \in 1..(k - 1) : j \in used
    IN  [role |-> role, n |-> n, closing |-> FALSE]

\* win.close(): the window starts closing; its "closed" event comes later.
close(W, id) == {IF Id(w) = id THEN [w EXCEPT !.closing = TRUE] ELSE w : w \in W}

\* The body shared by the four create*Window functions: focus the window the
\* reference holds when it is not destroyed, else make one and keep it.
createWindow(W, R, role) ==
    IF R[role] # NoWindow /\ ~isDestroyed(W, R[role])
    THEN [wins |-> W, refs |-> R]
    ELSE LET w == NewWindow(W, role)
         IN  [wins |-> W \cup {w}, refs |-> [R EXCEPT ![role] = Id(w)]]

createHomeWindow(W, R) == createWindow(W, R, "home")

createAdminWindow(W, R) == createWindow(W, R, "admin")

createRaceWindow(W, R) == createWindow(W, R, "race")

\* createLoginWindow after initializeAppData: nothing when that call threw.
createLoginWindowRest ==
    LET c == createWindow(wins, refs, "login")
    IN  /\ wins' = IF last'.outcome = "returned" THEN c.wins ELSE wins
        /\ refs' = IF last'.outcome = "returned" THEN c.refs ELSE refs
        /\ UNCHANGED quit

\* app.whenReady().then(createLoginWindow)
WhenReady == phase = "start" /\ createLoginWindow /\ createLoginWindowRest

\* app.on("activate"): createLoginWindow when no window exists.
OnActivate ==
    /\ phase # "start" /\ ~quit
    /\ wins = {}
    /\ createLoginWindow /\ createLoginWindowRest

\* A renderer exists to send a request, and the application has not quit.
Windowed == wins # {} /\ ~quit

\* What a listener that ends with "if (ref) ref.method()" reports: the call
\* throws when the reference holds a destroyed window.
Listened(op, W, ref) ==
    IF ref # NoWindow /\ isDestroyed(W, ref)
    THEN Raised(op, "", "", "TypeError")
    ELSE Returned(op, "", "", "undefined")

\* open-home-window: createHomeWindow(); if (loginWindow) loginWindow.close()
OpenHomeWindow ==
    LET c == createHomeWindow(wins, refs)
    IN  /\ Windowed
        /\ Cardinality(OfRole(wins, "home")) < MaxWindows
        /\ wins' = IF c.refs["login"] # NoWindow
                   THEN close(c.wins, c.refs["login"]) ELSE c.wins
        /\ refs' = c.refs
        /\ Report(Listened("open-home-window", c.wins, c.refs["login"]))
        /\ UNCHANGED <<quit, build, phase, ioFail, dirs, files, pending>>

\* open-admin-window: createAdminWindow(); if (loginWindow) loginWindow.close()
OpenAdminWindow ==
    LET c == createAdminWindow(wins, refs)
    IN  /\ Windowed
        /\ Cardinality(OfRole(wins, "admin")) < MaxWindows
        /\ wins' = IF c.refs["login"] # NoWindow
                   THEN close(c.wins, c.refs["login"]) ELSE c.wins
        /\ refs' = c.refs
        /\ Report(Listened("open-admin-window", c.wins, c.refs["login"]))
        /\ UNCHANGED <<quit, build, phase, ioFail, dirs, files, pending>>

\* open-race-window: createRaceWindow(); if (homeWindow) homeWindow.focus()
OpenRaceWindow ==
    LET c == createRaceWindow(wins, refs)
    IN  /\ Windowed
        /\ Cardinality(OfRole(wins, "race")) < MaxWindows
        /\ wins' = c.wins
        /\ refs' = c.refs
        /\ Report(Listened("open-race-window", c.wins, c.refs["home"]))
        /\ UNCHANGED <<quit, build, phase, ioFail, dirs, files, pending>>

\* close-window from the renderer of w: BrowserWindow.fromWebContents(
\* event.sender) is w, and w.close().
CloseWindow(w) ==
    /\ Windowed
    /\ w \in wins
    /\ wins' = close(wins, Id(w))
    /\ Report(Returned("close-window", w.role, "", "undefined"))
    /\ UNCHANGED <<refs, quit, build, phase, ioFail, dirs, files, pending>>

\* The user closes w from its frame or from the window manager.
UserCloses(w) ==
    /\ Windowed
    /\ w \in wins /\ ~w.closing
    /\ wins' = close(wins, Id(w))
    /\ Report([NoResult EXCEPT !.op = "environment"])
    /\ UNCHANGED <<refs, quit, build, phase, ioFail, dirs, files, pending>>

\* Mutant: the first revision's test, which knows no admin window.
closedQuitsNoAdmin(R, role) ==
    \A r \in (Roles \ {"admin"}) \ {role} : R[r] = NoWindow

\* The test in the "closed" handler of a window of the role, made after the
\* role's reference is cleared: the other three references hold no window.
closedQuits(R, role) ==
    \A r \in Roles \ {role} : R[r] = NoWindow

\* The "closed" event of a closing window w: its handler clears the role's
\* reference and calls app.quit() when closedQuits; and when w was the last
\* window, window-all-closed calls app.quit() except on darwin.
Closed(w, darwin) ==
    LET R == [refs EXCEPT ![w.role] = NoWindow]
        allClosed == wins \ {w} = {}
    IN  /\ ~quit
        /\ w \in wins /\ w.closing
        /\ wins' = wins \ {w}
        /\ refs' = R
        /\ quit' = (closedQuits(R, w.role) \/ (allClosed /\ ~darwin))
        /\ Report(Returned("closed", w.role,
                           IF ~allClosed THEN ""
                           ELSE IF darwin THEN "window-all-closed"
                           ELSE "window-all-closed: app.quit",
                           IF closedQuits(R, w.role) THEN "app.quit" ELSE ""))
        /\ UNCHANGED <<build, phase, ioFail, dirs, files, pending>>

-----------------------------------------------------------------------------
\* Specification

PriorDirs == {{}, {appDataPath}, {appDataPath, docsDir}}

PriorFiles(D) ==
    IF appDataPath \notin D THEN {{}}
    ELSE {R \cup U :
            R \in SUBSET {[path |-> p, data |-> ObjA] : p \in RecordPaths},
            U \in IF docsDir \in D
                  THEN SUBSET {[path |-> join(docsDir, "invoice.pdf"), data |-> DocX]}
                  ELSE {{}}}

Init ==
    /\ build \in {"main.js", "part_000"}
    /\ phase = "start"
    /\ ioFail \in BOOLEAN
    /\ dirs \in PriorDirs
    /\ files \in PriorFiles(dirs)
    /\ pending = {}
    /\ last = NoResult
    /\ scen = NoScen
    /\ wins = {}
    /\ refs = [role \in Roles |-> NoWindow]
    /\ quit = FALSE

Next ==
    \/ AppReady
    \/ Activate
    \/ \E fileName \in FileNames : GetData(fileName)
    \/ UploadDocumentStart
    \/ UploadDocumentResume
    \/ ListFiles
    \/ \E oldName \in Names, newName \in Names : RenameFile(oldName, newName)
    \/ \E name \in Names : DeleteFile(name)
    \/ \E name \in Names : OpenFile(name)
    \/ \E fileName \in FileNames, content \in ExportTexts :
            ExportDataStart(fileName, content)
    \/ ExportDataResume
    \/ \E fileName \in FileNames : ImportDataStart(fileName)
    \/ ImportDataResume
    \/ SetIoFail
    \/ RemoveUploadsDir

Spec == Init /\ [][Next]_vars

\* The window lifecycle: the windows are those of main.js.
InitWindows == Init /\ build = "main.js"

NextWindows ==
    \/ WhenReady
    \/ OnActivate
    \/ OpenHomeWindow
    \/ OpenAdminWindow
    \/ OpenRaceWindow
    \/ \E w \in wins : CloseWindow(w)
    \/ \E w \in wins : UserCloses(w)
    \/ \E w \in wins, darwin \in BOOLEAN : Closed(w, darwin)
    \/ SetIoFail

SpecWindows == InitWindows /\ [][NextWindows]_vars

-----------------------------------------------------------------------------
\* Properties

Bootstrapped == last.op = "initializeAppData" /\ last.outcome = "returned"

\* C1, as stated: whenever initializeAppData has returned, database.json,
\* requirements.json and the uploads directory exist, whatever the prior state
\* and also when the seed copy or the placeholder write failed.
C1_AllExistAfterBootstrap ==
    Bootstrapped =>
        /\ docsDir \in dirs
        /\ IsFile(files, dbPath)
        /\ IsFile(files, reqPath)

\* C1, amended: whenever initializeAppData has returned, the root and the
\* uploads directory exist, and each record file exists unless its copy or
\* write failed in this call, which main.js logs and survives with the file
\* still absent.
C1_ExistUnlessWriteFailed ==
    Bootstrapped =>
        /\ appDataPath \in dirs
        /\ docsDir \in dirs
        /\ \/ IsFile(files, dbPath) /\ last.a1 # "error"
           \/ ~IsFile(files, dbPath) /\ last.a1 = "error" /\ ioFail /\ build = "main.js"
        /\ \/ IsFile(files, reqPath) /\ last.a2 # "error"
           \/ ~IsFile(files, reqPath) /\ last.a2 = "error" /\ ioFail /\ build = "main.js"

\* C1: a bootstrap that found no seed for database.json and wrote the
\* placeholder, and seeded requirements.json from the development tree.
C1_Witness ==
    /\ Bootstrapped
    /\ last.a1 = "missing" /\ last.a2 = "__dirname"
    /\ IsFile(files, dbPath) /\ DataAt(files, dbPath) = Placeholder
    /\ IsFile(files, reqPath) /\ DataAt(files, reqPath) = SeedDev

\* C2: a call of initializeAppData leaves every record file that exists before
\* it with the same content, leaves the uploaded documents alone, and changes
\* nothing at all when the request before it was initializeAppData too.
C2_BootstrapIdempotent ==
    [][last'.op = "initializeAppData" =>
        /\ \A p \in RecordPaths :
              IsFile(files, p) => IsFile(files', p) /\ DataAt(files', p) = DataAt(files, p)
        /\ DirEntries(files') = DirEntries(files)
        /\ dirs \subseteq dirs'
        /\ last.op = "initializeAppData" => files' = files /\ dirs' = dirs]_vars

\* C2: a bootstrap that found database.json in place with its earlier content
\* and created requirements.json from the packaged seed.
C2_Witness ==
    /\ Bootstrapped
    /\ last.a1 = "exists" /\ last.a2 = "app.asar.unpacked"
    /\ DataAt(files, dbPath) = ObjA
    /\ DataAt(files, reqPath) = SeedProd

\* The spec's examples of texts that are, and are not, well-formed JSON.
WellFormedTexts == {Placeholder, ObjA}
MalformedTexts == {BadObj, Truncated}
Kinds == {"database.json", "requirements.json"}
KindPath(kind) == IF kind = "database.json" THEN dbPath ELSE reqPath
OtherKind(kind) == IF kind = "database.json" THEN "requirements.json" ELSE "database.json"

\* C3: an import-data that read a chosen file whose text is malformed raises
\* "Invalid JSON structure" and changes no file, so get-data of either kind
\* returns what it returned before.
C3_MalformedImportRejected ==
    [][(/\ last'.op = "import-data"
        /\ last'.a2 = "read"
        /\ last'.file.data \in MalformedTexts) =>
        /\ last'.outcome = "raised"
        /\ last'.err = "Invalid JSON structure"
        /\ files' = files
        /\ dirs' = dirs
        /\ \A k \in Kinds : GetDataText(files', k) = GetDataText(files, k)]_vars

\* C3: import-data("database.json") was answered with a file holding {a:1} and
\* raised, while database.json still holds its packaged seed.
C3_Witness ==
    /\ last.op = "import-data" /\ last.a1 = "database.json"
    /\ last.outcome = "raised" /\ last.err = "Invalid JSON structure"
    /\ last.file.data = BadObj
    /\ IsFile(files, dbPath) /\ DataAt(files, dbPath) = SeedProd

\* C4: an import-data(kind) answered with a readable file holding a well-formed
\* text T, while userData accepts writes, returns T; the kind's file then holds
\* T, get-data(kind) returns T, and the other kind's get-data and the uploads
\* are as before.
C4_ImportRoundTrip ==
    [][(/\ last'.op = "import-data"
        /\ last'.a1 \in Kinds
        /\ last'.file.ok
        /\ last'.file.data \in WellFormedTexts
        /\ ~ioFail) =>
        LET T == last'.file.data
            kind == last'.a1
        IN  /\ last'.outcome = "returned"
            /\ last'.ret = "text"
            /\ last'.text = T
            /\ IsFile(files', KindPath(kind))
            /\ DataAt(files', KindPath(kind)) = T
            /\ GetDataText(files', kind) = T
            /\ GetDataText(files', OtherKind(kind)) = GetDataText(files, OtherKind(kind))
            /\ {e \in files' : e.path # KindPath(kind)}
                  = {e \in files : e.path # KindPath(kind)}]_vars

\* C4: import-data("requirements.json") returned {"a":1}, a JSON object, which
\* requirements.json now holds while database.json holds the placeholder.
C4_Witness ==
    /\ last.op = "import-data" /\ last.a1 = "requirements.json"
    /\ last.ret = "text" /\ last.text = ObjA
    /\ DataAt(files, reqPath) = ObjA
    /\ IsFile(files, dbPath) /\ DataAt(files, dbPath) = Placeholder

\* C5, as stated: a delete-file(name) that returns has returned false and
\* changed nothing when no such file was in the uploads directory, and otherwise
\* has returned true and removed exactly that file, which list-files no longer
\* names.
C5_DeleteReportsAbsence ==
    [][(last'.op = "delete-file" /\ last'.outcome = "returned") =>
        LET p == join(docsDir, last'.a1)
        IN  IF IsFile(files, p)
            THEN /\ last'.ret = "true"
                 /\ files' = {e \in files : e.path # p}
                 /\ last'.a1 \notin ListFilesResult(dirs', files')
            ELSE /\ last'.ret = "false"
                 /\ files' = files]_vars

\* C6, as stated: an export-data that returns has returned false when no
\* destination was chosen, and true with the content written verbatim when one
\* was; in both cases no file or directory under userData has changed.
C6_ExportReportsCancel ==
    [][(last'.op = "export-data" /\ last'.outcome = "returned") =>
        /\ IF last'.file = NoFile
           THEN last'.ret = "false"
           ELSE last'.ret = "true" /\ last'.file.data = last'.text
        /\ files' = files
        /\ dirs' = dirs]_vars

HandlerOps ==
    {"get-data", "upload-document", "list-files", "rename-file", "delete-file",
     "open-file", "export-data", "import-data"}

\* C7, as stated: a request handler raises to its caller only from import-data
\* and only for a JSON validation failure.
C7_OnlyValidationRaises ==
    (last.op \in HandlerOps /\ last.outcome = "raised") =>
        (last.op = "import-data" /\ last.err = "Invalid JSON structure")

\* C8: get-data(kind) always returns a text and changes nothing: the kind's
\* file's text when the file is there, "[]" when it is not; and right after a
\* bootstrap that found database.json absent and no seed for it,
\* get-data("database.json") returns "[]".
C8_GetDataNeverRaises ==
    [][(last'.op = "get-data" /\ last'.a1 \in Kinds) =>
        /\ last'.outcome = "returned"
        /\ last'.ret = "text"
        /\ files' = files /\ dirs' = dirs
        /\ last'.text = IF IsFile(files, KindPath(last'.a1))
                        THEN DataAt(files, KindPath(last'.a1))
                        ELSE Placeholder
        /\ (Bootstrapped /\ last.a1 \in {"missing", "error"}
               /\ last'.a1 = "database.json") => last'.text = Placeholder]_vars

\* C8: get-data("database.json") returned "[]" although database.json is
\* absent (its placeholder write failed at bootstrap).
C8_Witness ==
    /\ last.op = "get-data" /\ last.a1 = "database.json"
    /\ last.text = Placeholder
    /\ ~IsFile(files, dbPath)

\* C9: rename-file(oldName, newName) returns false and changes nothing when
\* oldName is not in the uploads directory; when it is, and userData accepts
\* writes, it returns true, oldName is gone, newName holds oldName's former
\* text in place of whatever it held, and every other file is as before.
C9_RenameFrame ==
    [][last'.op = "rename-file" =>
        LET oldP == join(docsDir, last'.a1)
            newP == join(docsDir, last'.a2)
        IN  IF ~IsFile(files, oldP)
            THEN /\ last'.outcome = "returned" /\ last'.ret = "false"
                 /\ files' = files /\ dirs' = dirs
            ELSE (~ioFail \/ oldP = newP) =>
                 /\ last'.outcome = "returned" /\ last'.ret = "true"
                 /\ oldP # newP => ~IsFile(files', oldP)
                 /\ Cardinality(EntriesNamed(files', last'.a2)) = 1
                 /\ DataAt(files', newP) = DataAt(files, oldP)
                 /\ {e \in files' : e.path # newP}
                       = {e \in files : e.path \notin {oldP, newP}}
                 /\ dirs' = dirs]_vars

\* C9: rename-file("invoice.pdf", "invoice_2024.pdf") returned true and
\* invoice_2024.pdf is the only document left.
C9_Witness ==
    /\ last.op = "rename-file" /\ last.ret = "true"
    /\ last.a1 = "invoice.pdf" /\ last.a2 = "invoice_2024.pdf"
    /\ DirNames(files) = {"invoice_2024.pdf"}

\* C10: after upload-document of A into an empty uploads directory,
\* rename-file(A, B) and delete-file(B), list-files returns nothing; and after
\* an upload-document that returned an entry, the entry's name is the picked
\* file's base name and list-files has exactly one entry of that name, holding
\* the picked file's text.
C10_UploadRenameDelete ==
    /\ scen.step = 3 => ListFilesResult(dirs, files) = {}
    /\ scen.step = 4 => last.list = {}
    /\ (last.op = "upload-document" /\ last.ret = "entry") =>
          LET base == last.file.path[Len(last.file.path)]
          IN  /\ last.a1 = base
              /\ base \in ListFilesResult(dirs, files)
              /\ Cardinality(EntriesNamed(files, base)) = 1
              /\ DataAt(files, join(docsDir, base)) = last.file.data

\* C10: the scenario has run to its final list-files with A = invoice.pdf and
\* B = invoice_2024.pdf.
C10_Witness ==
    /\ scen.step = 4
    /\ scen.a = "invoice.pdf" /\ scen.b = "invoice_2024.pdf"
    /\ last.op = "list-files"

-----------------------------------------------------------------------------
\* Interleaving of requests

\* The handlers that await a native dialog.
DialogOps == {"upload-document", "export-data", "import-data"}

\* C11, as stated: no other request's handler executes between the start and
\* the end of an upload-document, export-data or import-data request: while
\* such a request is unfinished (still awaiting its dialog), the only handler
\* step that has been taken is that request's own start.
C11_RunToCompletion ==
    \A r \in pending :
        last.op \in HandlerOps =>
            (last.outcome = "awaiting" /\ last.op = r.op /\ last.a1 = r.a1)

\* C11, amended: a handler is interleaved with others only at its await.  A
\* step that leaves a request awaiting its dialog touches no file or directory
\* and adds exactly that request; a handler without a dialog completes in its
\* own step and leaves every awaiting request awaiting; a dialog handler ends in
\* one step, which takes exactly one awaiting request of its kind; nothing else
\* changes the set of awaiting requests.
C11_InterleavedOnlyAtAwait ==
    [][/\ last'.outcome = "awaiting" =>
            /\ files' = files /\ dirs' = dirs
            /\ last'.op \in DialogOps
            /\ \E r \in pending' \ pending :
                    /\ pending' = pending \cup {r}
                    /\ r.op = last'.op /\ r.a1 = last'.a1
       /\ last'.op \in HandlerOps \ DialogOps =>
            /\ pending' = pending
            /\ last'.outcome \in {"returned", "raised"}
       /\ (last'.op \in DialogOps /\ last'.outcome # "awaiting") =>
            /\ last'.outcome \in {"returned", "raised"}
            /\ \E r \in pending : r.op = last'.op /\ pending' = pending \ {r}
       /\ pending' # pending => last'.op \in DialogOps]_vars

\* C11: delete-file("invoice.pdf") has run to its return while an import-data
\* request is still awaiting its dialog.
C11_Witness ==
    /\ \E r \in pending : r.op = "import-data"
    /\ last.op = "delete-file" /\ last.a1 = "invoice.pdf"
    /\ last.outcome = "returned"

-----------------------------------------------------------------------------
\* Window lifecycle

\* C12: a "closed" handler has requested app.quit only when all four window
\* references hold no window once the closing window's reference is cleared;
\* the open-home-window and open-admin-window steps request no quit, and the
\* login window's "closed" requests none while a home or admin window lives;
\* and at most one window of each role is alive.
C12_WindowLifecycle ==
    /\ (last.op = "closed" /\ last.ret = "app.quit") =>
            \A role \in Roles : refs[role] = NoWindow
    /\ last.op \in {"open-home-window", "open-admin-window"} => ~quit
    /\ (/\ last.op = "closed" /\ last.a1 = "login"
        /\ \E w \in wins : w.role \in {"home", "admin"}) =>
            (~quit /\ last.ret = "")
    /\ \A role \in Roles : Cardinality(OfRole(wins, role)) <= 1

\* C12: the login window's "closed" has been handled after open-admin-window,
\* the admin window is alive and held by adminWindow, and no quit was asked.
C12_Witness ==
    /\ last.op = "closed" /\ last.a1 = "login"
    /\ refs["login"] = NoWindow
    /\ refs["admin"] # NoWindow /\ ~isDestroyed(wins, refs["admin"])
    /\ ~quit

====
